---- MODULE Spec2Model ----
(***************************************************************************)
(* word2txt: text extraction from .docx packages (src/word2txt.py), the    *)
(* text merge utility (src/txt-merge.py) and the desktop UI                *)
(* (src/word2txt-ui.py).                                                   *)
(*                                                                         *)
(* A Python str is a sequence of one-character strings.  An Optional value *)
(* is a sequence of length at most one: <<>> is None, <<v>> is the value v.*)
(***************************************************************************)
EXTENDS Naturals, Sequences, FiniteSets

VARIABLES
    docx_path,    \* Optional: the file handed to extract_docx_text
    docx_text,    \* Optional: the DocxText (its paragraphs) it returned
    root,         \* Optional: the element tree of one XML part
    stage,        \* "file", "extracted"; "xml", "paragraphs": what is set
    paragraphs,   \* DocxText.paragraphs handed to to_text
    text,         \* Optional: DocxText(paragraphs).to_text()
    again,        \* Optional: DocxText([text]).to_text()
    input_dir,    \* convert_directory: file name -> Optional entry
    output_dir,   \* convert_directory: file name -> Optional file text
    written,      \* the out_path names of the write_text calls, in order
    queue,        \* what iter_docx_files has still to yield
    converted,
    skipped,
    pc,           \* "idle", "start", "loop", "returned"
    ret,          \* Optional: the tuple convert_directory returned
    src_dir,      \* merge_txt_files: file name -> Optional entry
    out_file,     \* Optional: the text merge_txt_files wrote
    merged_count, \* Optional: the number merge_txt_files returned
    files_found,  \* WordTxtMergeApp: the list self.files_found is bound to
    list_files,   \* the names shown in the list box
    btn_run,      \* state of the 'Extract & Merge' button
    status_label, \* text of the status label
    selected_dir, \* Optional: the directory shown next to the buttons
    disk,         \* file name -> Optional file, as the worker finds it
    workers,      \* the process_files threads, in the order they started
    after_queue,  \* callbacks handed to root.after(0, ...), oldest first
    merge_dir     \* the texts written to the merge directory, in order

textVars == <<paragraphs, text, again>>
packageVars == <<docx_path, docx_text>>
batchVars == <<input_dir, output_dir, written, queue, converted, skipped, pc, ret>>
mergeVars == <<src_dir, out_file, merged_count>>
uiVars ==
    <<files_found, list_files, btn_run, status_label, selected_dir, disk,
      workers, after_queue, merge_dir>>
vars ==
    <<docx_path, docx_text, root, stage, paragraphs, text, again,
      input_dir, output_dir, written, queue, converted, skipped, pc, ret,
      src_dir, out_file, merged_count,
      files_found, list_files, btn_run, status_label, selected_dir, disk,
      workers, after_queue, merge_dir>>

None == <<>>
Some(v) == <<v>>

\* ------------------------------------------------------------------------
\* Bounds of the model
\* ------------------------------------------------------------------------
MaxParas == 3
MaxChars == 4
MaxNodes == 4
MaxEntries == 3
MaxFiles == 3
MaxTxtFiles == 3

\* ------------------------------------------------------------------------
\* Characters and Python str primitives
\* ------------------------------------------------------------------------
NL == "\n"
TAB == "\t"
SP == " "
CR == "\r"

\* str.splitlines() boundaries that occur in the model's alphabet
LineBoundary == {NL, CR}
\* characters removed by str.strip() that occur in the model's alphabet
Whitespace == {SP, TAB, NL, CR}
\* the character class [ \t] of the first re.sub
HSpace == {SP, TAB}

RECURSIVE Concat(_)
Concat(ss) ==
    IF ss = <<>> THEN <<>> ELSE Head(ss) \o Concat(Tail(ss))

\* sep.join(parts)
RECURSIVE Join(_, _)
Join(parts, sep) ==
    IF parts = <<>> THEN <<>>
    ELSE IF Len(parts) = 1 THEN parts[1]
    ELSE parts[1] \o sep \o Join(Tail(parts), sep)

RECURSIVE LStrip(_)
LStrip(s) ==
    IF s # <<>> /\ Head(s) \in Whitespace THEN LStrip(Tail(s)) ELSE s

RECURSIVE RStrip(_)
RStrip(s) ==
    IF s # <<>> /\ s[Len(s)] \in Whitespace
    THEN RStrip(SubSeq(s, 1, Len(s) - 1))
    ELSE s

\* str.strip()
Strip(s) == RStrip(LStrip(s))

\* index of the first line boundary of s, or 0
RECURSIVE FirstBoundary(_, _)
FirstBoundary(s, i) ==
    IF i > Len(s) THEN 0
    ELSE IF s[i] \in LineBoundary THEN i
    ELSE FirstBoundary(s, i + 1)

\* str.splitlines(): "\r\n" is one boundary; no empty last line after a
\* final boundary; "" has no lines.
RECURSIVE splitlines(_)
splitlines(s) ==
    IF s = <<>> THEN <<>>
    ELSE LET i == FirstBoundary(s, 1) IN
         IF i = 0 THEN <<s>>
         ELSE LET k == IF s[i] = CR /\ i < Len(s) /\ s[i + 1] = NL
                       THEN i + 1 ELSE i
              IN  <<SubSeq(s, 1, i - 1)>> \o splitlines(SubSeq(s, k + 1, Len(s)))

\* length of the longest prefix of s made of characters of cs
RECURSIVE RunLen(_, _)
RunLen(s, cs) ==
    IF s # <<>> /\ Head(s) \in cs THEN 1 + RunLen(Tail(s), cs) ELSE 0

\* faulty variant of SubTrailingSpace: the pattern without its "+" (r"[ \t]\n")
RECURSIVE SubOneTrailingSpace(_)
SubOneTrailingSpace(s) ==
    IF s = <<>> THEN <<>>
    ELSE IF Len(s) >= 2 /\ s[1] \in HSpace /\ s[2] = NL
    THEN <<NL>> \o SubOneTrailingSpace(SubSeq(s, 3, Len(s)))
    ELSE <<Head(s)>> \o SubOneTrailingSpace(Tail(s))

\* re.sub(r"[ \t]+\n", "\n", s): leftmost greedy non-overlapping matches
RECURSIVE SubTrailingSpace(_)
SubTrailingSpace(s) ==
    IF s = <<>> THEN <<>>
    ELSE LET k == RunLen(s, HSpace) IN
         IF k = 0 THEN <<Head(s)>> \o SubTrailingSpace(Tail(s))
         ELSE IF k < Len(s) /\ s[k + 1] = NL
         THEN <<NL>> \o SubTrailingSpace(SubSeq(s, k + 2, Len(s)))
         ELSE SubSeq(s, 1, k) \o SubTrailingSpace(SubSeq(s, k + 1, Len(s)))

\* re.sub(r"\n{3,}", "\n\n", s)
RECURSIVE SubBlankRuns(_)
SubBlankRuns(s) ==
    IF s = <<>> THEN <<>>
    ELSE LET k == RunLen(s, {NL}) IN
         IF k = 0 THEN <<Head(s)>> \o SubBlankRuns(Tail(s))
         ELSE IF k >= 3
         THEN <<NL, NL>> \o SubBlankRuns(SubSeq(s, k + 1, Len(s)))
         ELSE SubSeq(s, 1, k) \o SubBlankRuns(SubSeq(s, k + 1, Len(s)))

\* ------------------------------------------------------------------------
\* DocxText.to_text
\* ------------------------------------------------------------------------
\* lines.extend(paragraph.splitlines()) for every paragraph
RECURSIVE ExtendLines(_)
ExtendLines(ps) ==
    IF ps = <<>> THEN <<>>
    ELSE splitlines(Head(ps)) \o ExtendLines(Tail(ps))

\* faulty variant of to_text: the two substitutions in the other order
to_text_swapped(ps) ==
    LET lines == ExtendLines(ps)
        t1 == Join(lines, <<NL>>)
        t2 == SubBlankRuns(t1)
        t3 == SubTrailingSpace(t2)
    IN  Strip(t3) \o <<NL>>

to_text(ps) ==
    LET lines == ExtendLines(ps)
        t1 == Join(lines, <<NL>>)
        t2 == SubTrailingSpace(t1)
        t3 == SubBlankRuns(t2)
    IN  Strip(t3) \o <<NL>>

\* no batch run: the variables of convert_directory at rest
BatchIdle ==
    /\ input_dir = <<>>
    /\ output_dir = <<>>
    /\ written = <<>>
    /\ queue = <<>>
    /\ converted = 0
    /\ skipped = 0
    /\ pc = "idle"
    /\ ret = None

\* no merge: the variables of merge_txt_files at rest
MergeIdle ==
    /\ src_dir = <<>>
    /\ out_file = None
    /\ merged_count = None

\* no window: the variables of WordTxtMergeApp at rest
UiIdle ==
    /\ files_found = <<>>
    /\ list_files = <<>>
    /\ btn_run = "disabled"
    /\ status_label = <<>>
    /\ selected_dir = None
    /\ disk = <<>>
    /\ workers = <<>>
    /\ after_queue = <<>>
    /\ merge_dir = <<>>

\* ------------------------------------------------------------------------
\* Inputs of the text normalizer
\* ------------------------------------------------------------------------
Alphabet == {"a", SP, TAB, NL, CR}

RECURSIVE SumTo(_, _)
SumTo(f, k) == IF k = 0 THEN 0 ELSE f[k] + SumTo(f, k - 1)

\* the list of Len(lens) strings cut from flat, the i-th of length lens[i]
RECURSIVE Pieces(_, _, _)
Pieces(flat, lens, i) ==
    IF i > Len(lens) THEN <<>>
    ELSE <<SubSeq(flat, 1, lens[i])>>
         \o Pieces(SubSeq(flat, lens[i] + 1, Len(flat)), lens, i + 1)

\* every list of at most MaxParas strings with at most MaxChars characters
\* in total is drawn exactly once
IsParagraphList(ps) ==
    \E n \in 0..MaxChars, k \in 0..MaxParas :
        \E flat \in [1..n -> Alphabet] :
            \E lens \in {f \in [1..k -> 0..n] : SumTo(f, k) = n} :
                ps = Pieces(flat, lens, 1)

\* ------------------------------------------------------------------------
\* Text normalizer: DocxText(paragraphs).to_text(), then the normalizer
\* applied to its own output
\* ------------------------------------------------------------------------
TextInit ==
    /\ IsParagraphList(paragraphs)
    /\ text = None
    /\ again = None
    /\ root = None
    /\ stage = "paragraphs"
    /\ docx_path = None
    /\ docx_text = None
    /\ BatchIdle
    /\ MergeIdle
    /\ UiIdle

Normalize ==
    /\ stage = "paragraphs"
    /\ text = None
    /\ text' = Some(to_text(paragraphs))
    /\ UNCHANGED <<paragraphs, again, root, stage, packageVars, batchVars, mergeVars, uiVars>>

Renormalize ==
    /\ text # None
    /\ again = None
    /\ again' = Some(to_text(<<text[1]>>))
    /\ UNCHANGED <<paragraphs, text, root, stage, packageVars, batchVars, mergeVars, uiVars>>

TextNext == Normalize \/ Renormalize

TextSpec == TextInit /\ [][TextNext]_vars

\* ------------------------------------------------------------------------
\* XML element trees and the paragraph text extractor
\* ------------------------------------------------------------------------
\* An element tree is the sequence of its elements in document order
\* (depth-first, parents before children), each with its depth; the root
\* has depth 0.  tag is the local name of a w: element ("x" for any other
\* element), text is Element.text ("" for None).
Node(tag, depth, txt) == [tag |-> tag, depth |-> depth, text |-> txt]

\* index of the last element of the subtree of element i
RECURSIVE SubtreeEnd(_, _, _)
SubtreeEnd(tree, i, j) ==
    IF j < Len(tree) /\ tree[j + 1].depth > tree[i].depth
    THEN SubtreeEnd(tree, i, j + 1)
    ELSE j

\* Element.iter(): the element and its descendants in document order
Iter(tree, i) == SubSeq(tree, i, SubtreeEnd(tree, i, i))

\* what one node of p.iter() appends to out
Fragment(node) ==
    IF node.tag = "t" THEN (IF node.text # <<>> THEN node.text ELSE <<>>)
    ELSE IF node.tag = "tab" THEN <<TAB>>
    ELSE IF node.tag \in {"br", "cr"} THEN <<NL>>
    ELSE <<>>

RECURSIVE Fragments(_)
Fragments(nodes) ==
    IF nodes = <<>> THEN <<>>
    ELSE <<Fragment(Head(nodes))>> \o Fragments(Tail(nodes))

\* faulty variant of _extract_paragraph_text: every fragment stripped on its own
RECURSIVE StripEach(_)
StripEach(ss) ==
    IF ss = <<>> THEN <<>> ELSE <<Strip(Head(ss))>> \o StripEach(Tail(ss))

_extract_paragraph_text_per_fragment(tree, i) ==
    Concat(StripEach(Fragments(Iter(tree, i))))

_extract_paragraph_text(tree, i) ==
    Strip(Concat(Fragments(Iter(tree, i))))

\* root.findall(".//w:p"): the w:p descendants of the root, document order
RECURSIVE FindAllP(_, _)
FindAllP(tree, i) ==
    IF i > Len(tree) THEN <<>>
    ELSE (IF tree[i].tag = "p" THEN <<i>> ELSE <<>>) \o FindAllP(tree, i + 1)

RECURSIVE ParagraphTexts(_, _)
ParagraphTexts(tree, ps) ==
    IF ps = <<>> THEN <<>>
    ELSE <<_extract_paragraph_text(tree, Head(ps))>>
         \o ParagraphTexts(tree, Tail(ps))

\* faulty variant of _extract_paragraphs_from_xml: paragraphs without text dropped
_extract_paragraphs_nonempty(tree) ==
    SelectSeq(ParagraphTexts(tree, FindAllP(tree, 2)), LAMBDA e : e # <<>>)

_extract_paragraphs_from_xml(tree) ==
    ParagraphTexts(tree, FindAllP(tree, 2))

\* ------------------------------------------------------------------------
\* Entry names, str.startswith / str.endswith and sorted()
\* ------------------------------------------------------------------------
DOCX_WORD_DIR == <<"w", "o", "r", "d", "/">>
DOCX_MAIN_DOCUMENT == <<"w", "o", "r", "d", "/", "d", "o", "c", "u", "m", "e", "n", "t", ".", "x", "m", "l">>

WORD_HEADER == <<"w", "o", "r", "d", "/", "h", "e", "a", "d", "e", "r">>
WORD_FOOTER == <<"w", "o", "r", "d", "/", "f", "o", "o", "t", "e", "r">>
WORD_FOOTNOTES == <<"w", "o", "r", "d", "/", "f", "o", "o", "t", "n", "o", "t", "e", "s", ".", "x", "m", "l">>
WORD_ENDNOTES == <<"w", "o", "r", "d", "/", "e", "n", "d", "n", "o", "t", "e", "s", ".", "x", "m", "l">>
DOT_XML == <<".", "x", "m", "l">>

\* the characters of the model's file names, in code point order
CodePointOrder ==
    <<".", "/", "1", "2", "B", "T", "X", "a", "b", "c", "d", "e", "f",
      "h", "i", "l", "m", "n", "o", "r", "s", "t", "u", "w", "x", "y">>
Ord(c) == CHOOSE i \in 1..Len(CodePointOrder) : CodePointOrder[i] = c

startswith(s, prefix) ==
    Len(prefix) <= Len(s) /\ SubSeq(s, 1, Len(prefix)) = prefix
endswith(s, suffix) ==
    Len(suffix) <= Len(s) /\ SubSeq(s, Len(s) - Len(suffix) + 1, Len(s)) = suffix

\* s < t for str: the first differing code point decides, a proper prefix
\* is smaller
RECURSIVE StrLess(_, _)
StrLess(s, t) ==
    IF t = <<>> THEN FALSE
    ELSE IF s = <<>> THEN TRUE
    ELSE IF Head(s) = Head(t) THEN StrLess(Tail(s), Tail(t))
    ELSE Ord(Head(s)) < Ord(Head(t))

\* sorted(names) for a list of str
RECURSIVE Insert(_, _)
Insert(x, sortedSeq) ==
    IF sortedSeq = <<>> THEN <<x>>
    ELSE IF StrLess(x, Head(sortedSeq)) THEN <<x>> \o sortedSeq
    ELSE <<Head(sortedSeq)>> \o Insert(x, Tail(sortedSeq))

RECURSIVE sorted(_)
sorted(names) ==
    IF names = <<>> THEN <<>> ELSE Insert(Head(names), sorted(Tail(names)))

\* ------------------------------------------------------------------------
\* The .docx file and extract_docx_text
\* ------------------------------------------------------------------------
\* A file is [zip |-> whether it is a zip container, entries |-> its
\* entries in stored order]; an entry is [name, xml], xml being the
\* Optional tree its bytes parse to (None: not well-formed XML).  Entry
\* names are distinct.
Entry(name, xml) == [name |-> name, xml |-> xml]

\* zf.namelist()
RECURSIVE namelist(_)
namelist(entries) ==
    IF entries = <<>> THEN <<>>
    ELSE <<Head(entries).name>> \o namelist(Tail(entries))

_read_xml_from_docx(file, inner_path) ==
    IF ~file.zip THEN None                            \* zipfile.BadZipFile
    ELSE LET found == SelectSeq(file.entries, LAMBDA e : e.name = inner_path) IN
         IF found = <<>> THEN None                    \* KeyError
         ELSE found[1].xml                            \* None on ET.ParseError

\* the test of the list comprehension that builds extra_xmls
IsExtraXml(name) ==
    /\ startswith(name, DOCX_WORD_DIR)
    /\ \/ startswith(name, WORD_HEADER)
       \/ startswith(name, WORD_FOOTER)
       \/ name \in {WORD_FOOTNOTES, WORD_ENDNOTES}
    /\ endswith(name, DOT_XML)

\* the loop over the supplementary parts: paragraphs.extend(...) for each
\* part that reads and parses
RECURSIVE ExtendWithExtras(_, _, _)
ExtendWithExtras(file, inners, ps) ==
    IF inners = <<>> THEN ps
    ELSE LET extra == _read_xml_from_docx(file, Head(inners)) IN
         ExtendWithExtras(file, Tail(inners),
             IF extra = None THEN ps
             ELSE ps \o _extract_paragraphs_from_xml(extra[1]))

\* faulty variant of extract_docx_text: the supplementary parts in stored order
extract_docx_text_unsorted(file) ==
    LET main == _read_xml_from_docx(file, DOCX_MAIN_DOCUMENT) IN
    IF main = None THEN None
    ELSE Some(ExtendWithExtras(file,
                  SelectSeq(namelist(file.entries), IsExtraXml),
                  _extract_paragraphs_from_xml(main[1])))

\* faulty variant of extract_docx_text: a supplementary part that fails to parse
\* fails the document
extract_docx_text_strict(file) ==
    LET main == _read_xml_from_docx(file, DOCX_MAIN_DOCUMENT)
        extra_xmls == SelectSeq(namelist(file.entries), IsExtraXml)
    IN  IF main = None THEN None
        ELSE IF \E i \in 1..Len(extra_xmls) :
                    _read_xml_from_docx(file, extra_xmls[i]) = None
        THEN None
        ELSE Some(ExtendWithExtras(file, sorted(extra_xmls),
                                   _extract_paragraphs_from_xml(main[1])))

extract_docx_text(file) ==
    LET main == _read_xml_from_docx(file, DOCX_MAIN_DOCUMENT) IN
    IF main = None THEN None
    ELSE LET ps == _extract_paragraphs_from_xml(main[1])
             extra_xmls == SelectSeq(namelist(file.entries), IsExtraXml)
         IN  Some(ExtendWithExtras(file, sorted(extra_xmls), ps))

\* ------------------------------------------------------------------------
\* Inputs of the paragraph text extractor: the trees of a WordprocessingML
\* part with at most MaxNodes elements below the root
\* ------------------------------------------------------------------------
\* elements that hold other elements: w:p and any container (w:body, w:r,
\* w:tbl, ...)
ContainerKinds == {<<"p", <<>>>>, <<"x", <<>>>>}
\* elements without element children: w:tab, w:br, w:cr and w:t with text
LeafKinds ==
    {<<"tab", <<>>>>, <<"br", <<>>>>, <<"cr", <<>>>>,
     <<"t", <<>>>>, <<"t", <<"a">>>>, <<"t", <<SP>>>>, <<"t", <<NL>>>>}
Kinds == ContainerKinds \cup LeafKinds

IsShape(d, n) ==
    /\ n > 0 => d[1] = 1
    /\ \A i \in 1..(n - 1) : d[i + 1] <= d[i] + 1

HasChild(d, n, i) == i < n /\ d[i + 1] > d[i]

Shapes(n) == {d \in [1..n -> 1..n] : IsShape(d, n)}

KindsFor(d, n) ==
    {k \in [1..n -> Kinds] :
        \A i \in 1..n : HasChild(d, n, i) => k[i] \in ContainerKinds}

\* the tree of a part: the root element and n elements below it
TreeOf(n, d, k) ==
    <<Node("x", 0, <<>>)>> \o [i \in 1..n |-> Node(k[i][1], d[i], k[i][2])]

\* a .docx file whose only entry is the main part
MainOnly(xml) == [zip |-> TRUE, entries |-> <<Entry(DOCX_MAIN_DOCUMENT, xml)>>]

\* ------------------------------------------------------------------------
\* A package with the main part alone: extract_docx_text, then to_text
\* ------------------------------------------------------------------------
ParseInit ==
    /\ \E n \in 0..MaxNodes :
           \E d \in Shapes(n) :
               \E k \in KindsFor(d, n) :
                   root = Some(TreeOf(n, d, k))
    /\ stage = "xml"
    /\ paragraphs = <<>>
    /\ text = None
    /\ again = None
    /\ docx_path = None
    /\ docx_text = None
    /\ BatchIdle
    /\ MergeIdle
    /\ UiIdle

ExtractParagraphs ==
    /\ stage = "xml"
    /\ root # None
    /\ docx_path' = Some(MainOnly(root))
    /\ docx_text' = extract_docx_text(MainOnly(root))
    /\ paragraphs' = docx_text'[1]
    /\ stage' = "paragraphs"
    /\ UNCHANGED <<root, text, again, batchVars, mergeVars, uiVars>>

ParseNext == ExtractParagraphs \/ Normalize

ParseSpec == ParseInit /\ [][ParseNext]_vars

\* ------------------------------------------------------------------------
\* Inputs of extract_docx_text: files with at most MaxEntries entries
\* ------------------------------------------------------------------------
WORD_HEADER1 == <<"w", "o", "r", "d", "/", "h", "e", "a", "d", "e", "r", "1", ".", "x", "m", "l">>
WORD_HEADER2 == <<"w", "o", "r", "d", "/", "h", "e", "a", "d", "e", "r", "2", ".", "x", "m", "l">>
WORD_FOOTER1 == <<"w", "o", "r", "d", "/", "f", "o", "o", "t", "e", "r", "1", ".", "x", "m", "l">>
WORD_STYLES == <<"w", "o", "r", "d", "/", "s", "t", "y", "l", "e", "s", ".", "x", "m", "l">>
WORD_HEADER1_BIN == <<"w", "o", "r", "d", "/", "h", "e", "a", "d", "e", "r", "1", ".", "b", "i", "n">>

EntryNames ==
    {DOCX_MAIN_DOCUMENT, WORD_HEADER1, WORD_HEADER2, WORD_FOOTER1,
     WORD_FOOTNOTES, WORD_ENDNOTES, WORD_STYLES, WORD_HEADER1_BIN}

\* a part with the one paragraph "a", and a part with the paragraph "b"
\* followed by a paragraph without text
PartA ==
    <<Node("x", 0, <<>>), Node("p", 1, <<>>), Node("t", 2, <<"a">>)>>
PartB ==
    <<Node("x", 0, <<>>), Node("p", 1, <<>>), Node("t", 2, <<"b">>),
      Node("p", 1, <<>>)>>

\* what the bytes of an entry parse to
EntryXmls == {None, Some(PartA), Some(PartB)}

\* not a zip container
NotAZip == [zip |-> FALSE, entries |-> <<>>]

\* ------------------------------------------------------------------------
\* One file: extract_docx_text(docx_path)
\* ------------------------------------------------------------------------
PackageInit ==
    /\ \/ docx_path = Some(NotAZip)
       \/ \E n \in 0..MaxEntries :
              \E names \in {f \in [1..n -> EntryNames] :
                              \A i, j \in 1..n : f[i] = f[j] => i = j} :
                  \E xmls \in [1..n -> EntryXmls] :
                      docx_path = Some([zip |-> TRUE,
                                        entries |-> [i \in 1..n |->
                                                       Entry(names[i], xmls[i])]])
    /\ docx_text = None
    /\ stage = "file"
    /\ root = None
    /\ paragraphs = <<>>
    /\ text = None
    /\ again = None
    /\ BatchIdle
    /\ MergeIdle
    /\ UiIdle

ExtractDocx ==
    /\ stage = "file"
    /\ docx_path # None
    /\ docx_text' = extract_docx_text(docx_path[1])
    /\ stage' = "extracted"
    /\ UNCHANGED <<docx_path, root, textVars, batchVars, mergeVars, uiVars>>

PackageNext == ExtractDocx

PackageSpec == PackageInit /\ [][PackageNext]_vars

\* ------------------------------------------------------------------------
\* Paths: PurePath.suffix, PurePath.stem, str.lower
\* ------------------------------------------------------------------------
DOT_DOCX == <<".", "d", "o", "c", "x">>
DOT_TXT == <<".", "t", "x", "t">>

\* index of the last "." of name that is not its first character, or 0
RECURSIVE LastDot(_, _)
LastDot(name, i) ==
    IF i <= 1 THEN 0
    ELSE IF name[i] = "." THEN i
    ELSE LastDot(name, i - 1)

\* PurePath.suffix: "" for a name that ends with its only dot
suffix(name) ==
    LET i == LastDot(name, Len(name)) IN
    IF i = 0 \/ i = Len(name) THEN <<>> ELSE SubSeq(name, i, Len(name))

stem(name) == SubSeq(name, 1, Len(name) - Len(suffix(name)))

LowerOf(c) ==
    CASE c = "B" -> "b"
      [] c = "T" -> "t"
      [] c = "X" -> "x"
      [] OTHER -> c

lower(s) == [i \in 1..Len(s) |-> LowerOf(s[i])]

\* the names of a directory (name -> Optional entry) as a list, in some
\* order: Path.iterdir() and Path.glob() promise none
RECURSIVE ListDir(_)
ListDir(names) ==
    IF names = {} THEN <<>>
    ELSE LET n == CHOOSE x \in names : TRUE IN <<n>> \o ListDir(names \ {n})

Present(dir) == {n \in DOMAIN dir : dir[n] # None}

\* a directory entry: a regular file with its contents, or a directory
File(contents) == [is_file |-> TRUE, contents |-> contents]
Directory == [is_file |-> FALSE, contents |-> <<>>]

\* ------------------------------------------------------------------------
\* iter_docx_files and convert_directory
\* ------------------------------------------------------------------------
\* sorted(input_dir.glob("*.docx")), then the paths that are files
iter_docx_files(dir) ==
    LET globbed == SelectSeq(ListDir(Present(dir)), LAMBDA n : endswith(n, DOT_DOCX))
    IN  SelectSeq(sorted(globbed), LAMBDA n : dir[n][1].is_file)

\* output_dir / f"{docx_path.stem}.txt"
out_path(name) == stem(name) \o DOT_TXT

\* the files of the batch: not a zip container, a zip container without a
\* main part, one whose main part does not parse, and two that extract
InputFiles ==
    {NotAZip,
     [zip |-> TRUE, entries |-> <<Entry(WORD_STYLES, Some(PartA))>>],
     MainOnly(None),
     MainOnly(Some(PartA)),
     [zip |-> TRUE, entries |-> <<Entry(WORD_HEADER1, Some(PartA)),
                                  Entry(DOCX_MAIN_DOCUMENT, Some(PartB))>>]}

A_DOCX == <<"a", ".", "d", "o", "c", "x">>
B_DOCX == <<"b", ".", "d", "o", "c", "x">>
C_DOCX == <<"c", ".", "d", "o", "c", "x">>
B_TXT == <<"b", ".", "t", "x", "t">>
InputNames == {A_DOCX, B_DOCX, C_DOCX, B_TXT}
OutputNames == {out_path(n) : n \in InputNames}

\* the text of an output file left by an earlier run
OLD == <<"o", "l", "d">>

BatchInit ==
    /\ \E present \in {ns \in SUBSET InputNames : Cardinality(ns) <= MaxFiles} :
           \E dir \in [present -> {Directory} \cup {File(f) : f \in InputFiles}] :
               input_dir = [n \in InputNames |->
                              IF n \in present THEN Some(dir[n]) ELSE None]
    /\ output_dir \in [OutputNames -> {None, Some(OLD)}]
    /\ written = <<>>
    /\ queue = <<>>
    /\ converted = 0
    /\ skipped = 0
    /\ pc = "start"
    /\ ret = None
    /\ docx_path = None
    /\ docx_text = None
    /\ root = None
    /\ stage = "file"
    /\ paragraphs = <<>>
    /\ text = None
    /\ again = None
    /\ MergeIdle
    /\ UiIdle

\* convert_directory up to the first iteration: the counters are zeroed and
\* iter_docx_files lists the directory
StartBatch ==
    /\ pc = "start"
    /\ converted' = 0
    /\ skipped' = 0
    /\ queue' = iter_docx_files(input_dir)
    /\ pc' = "loop"
    /\ UNCHANGED <<input_dir, output_dir, written, ret, packageVars, root, stage, textVars,
                   mergeVars, uiVars>>

\* faulty variant of ConvertOne: a file that does not extract ends the loop
ConvertOneOrStop ==
    /\ pc = "loop"
    /\ queue # <<>>
    /\ LET file == input_dir[Head(queue)][1].contents
           result == extract_docx_text(file)
       IN  /\ docx_path' = Some(file)
           /\ docx_text' = result
           /\ IF result = None
              THEN /\ skipped' = skipped + 1
                   /\ queue' = <<>>
                   /\ UNCHANGED <<converted, output_dir, written>>
              ELSE /\ output_dir' = [output_dir EXCEPT
                                       ![out_path(Head(queue))] = Some(to_text(result[1]))]
                   /\ written' = Append(written, out_path(Head(queue)))
                   /\ converted' = converted + 1
                   /\ queue' = Tail(queue)
                   /\ UNCHANGED skipped
    /\ UNCHANGED <<input_dir, pc, ret, root, stage, textVars, mergeVars, uiVars>>

\* faulty variant of ConvertOne: the output file is opened before the extraction,
\* so a file that does not extract leaves an empty output file
ConvertOneOpenFirst ==
    /\ pc = "loop"
    /\ queue # <<>>
    /\ LET file == input_dir[Head(queue)][1].contents
           result == extract_docx_text(file)
       IN  /\ docx_path' = Some(file)
           /\ docx_text' = result
           /\ queue' = Tail(queue)
           /\ written' = Append(written, out_path(Head(queue)))
           /\ IF result = None
              THEN /\ skipped' = skipped + 1
                   /\ output_dir' = [output_dir EXCEPT
                                       ![out_path(Head(queue))] = Some(<<>>)]
                   /\ UNCHANGED converted
              ELSE /\ output_dir' = [output_dir EXCEPT
                                       ![out_path(Head(queue))] = Some(to_text(result[1]))]
                   /\ converted' = converted + 1
                   /\ UNCHANGED skipped
    /\ UNCHANGED <<input_dir, pc, ret, root, stage, textVars, mergeVars, uiVars>>

\* one iteration of the loop of convert_directory
ConvertOne ==
    /\ pc = "loop"
    /\ queue # <<>>
    /\ LET file == input_dir[Head(queue)][1].contents
           result == extract_docx_text(file)
       IN  /\ docx_path' = Some(file)
           /\ docx_text' = result
           /\ queue' = Tail(queue)
           /\ IF result = None
              THEN /\ skipped' = skipped + 1
                   /\ UNCHANGED <<converted, output_dir, written>>
              ELSE /\ output_dir' = [output_dir EXCEPT
                                       ![out_path(Head(queue))] = Some(to_text(result[1]))]
                   /\ written' = Append(written, out_path(Head(queue)))
                   /\ converted' = converted + 1
                   /\ UNCHANGED skipped
    /\ UNCHANGED <<input_dir, pc, ret, root, stage, textVars, mergeVars, uiVars>>

\* return converted, skipped
ReturnCounters ==
    /\ pc = "loop"
    /\ queue = <<>>
    /\ ret' = Some(<<converted, skipped>>)
    /\ pc' = "returned"
    /\ UNCHANGED <<input_dir, output_dir, written, queue, converted, skipped,
                   packageVars, root, stage, textVars, mergeVars, uiVars>>

BatchNext == StartBatch \/ ConvertOne \/ ReturnCounters

BatchSpec == BatchInit /\ [][BatchNext]_vars

\* ------------------------------------------------------------------------
\* merge_txt_files (src/txt-merge.py)
\* ------------------------------------------------------------------------
\* the loop over txt_files: what it appends to merged_parts for the files
\* from the i-th on; prev is merged_parts[-1]
RECURSIVE MergeParts(_, _, _)
MergeParts(contents, i, prev) ==
    IF i > Len(contents) THEN <<>>
    ELSE (IF i # 1 /\ ~endswith(prev, <<NL>>) THEN <<NL>> ELSE <<>>)
         \o (IF i # 1 THEN <<NL>> ELSE <<>>)
         \o contents[i]
         \o MergeParts(contents, i + 1, contents[i])

\* the p of src_dir.iterdir() with p.is_file() and p.suffix.lower() ==
\* ".txt", sorted by p.name
txt_files(dir) ==
    sorted(SelectSeq(ListDir(Present(dir)),
                     LAMBDA n : dir[n][1].is_file /\ lower(suffix(n)) = DOT_TXT))

\* faulty variant of merged_text: two newlines between files whatever the last
\* part ends with
merged_text_two_newlines(dir) ==
    LET files == txt_files(dir) IN
    Join([i \in 1..Len(files) |-> dir[files[i]][1].contents], <<NL, NL>>)

\* "".join(merged_parts)
merged_text(dir) ==
    LET files == txt_files(dir) IN
    MergeParts([i \in 1..Len(files) |-> dir[files[i]][1].contents], 1, <<>>)

A_TXT == <<"a", ".", "t", "x", "t">>
C_TXT == <<"c", ".", "t", "x", "t">>
B_TXT_UPPER == <<"B", ".", "T", "X", "T">>
D_MD == <<"d", ".", "m", "d">>
TxtNames == {A_TXT, B_TXT, C_TXT, B_TXT_UPPER, D_MD}

\* what _read_text_with_fallback returns for the files of the model
TxtContents ==
    {<<>>, <<"A">>, <<"B">>, <<"C">>, <<"A", NL>>, <<"B", NL, NL>>}

MergeInit ==
    /\ \E present \in {ns \in SUBSET TxtNames : Cardinality(ns) <= MaxTxtFiles} :
           \E dir \in [present -> {Directory} \cup {File(c) : c \in TxtContents}] :
               src_dir = [n \in TxtNames |->
                            IF n \in present THEN Some(dir[n]) ELSE None]
    /\ out_file = None
    /\ merged_count = None
    /\ BatchIdle
    /\ UiIdle
    /\ docx_path = None
    /\ docx_text = None
    /\ root = None
    /\ stage = "merge"
    /\ paragraphs = <<>>
    /\ text = None
    /\ again = None

\* merge_txt_files(src_dir, out_file) on an existing directory
MergeTxtFiles ==
    /\ stage = "merge"
    /\ merged_count = None
    /\ out_file' = Some(merged_text(src_dir))
    /\ merged_count' = Some(Len(txt_files(src_dir)))
    /\ UNCHANGED <<src_dir, packageVars, root, stage, textVars, batchVars, uiVars>>

MergeNext == MergeTxtFiles

MergeSpec == MergeInit /\ [][MergeNext]_vars

\* ------------------------------------------------------------------------
\* WordTxtMergeApp (src/word2txt-ui.py): the UI thread, the process_files
\* threads it starts, and the callbacks they hand back with root.after.
\* A handler of the UI thread is one step; in a process_files thread the
\* steps are its start up to the loop, one iteration of the loop, and the
\* save.  A Python list is an object: list.append and list.remove change
\* the list a running loop iterates, a new binding of self.files_found
\* leaves the loop with the list it started on.  A process_files thread
\* takes a step only while fewer than MaxPending callbacks wait for the UI
\* thread.
\* ------------------------------------------------------------------------
MaxWorkers == 2
MaxPick == 2
MaxPending == 2

NORMAL == "normal"
DISABLED == "disabled"

\* "\n\n" + "-"*40 + "\n\n"
SEPARATOR == <<NL, NL>> \o [k \in 1..40 |-> "-"] \o <<NL, NL>>

\* the files the dialog offers, all in the directory WORD_DIR
UiNames == {A_DOCX, B_DOCX}
WORD_DIR == <<"w", "o", "r", "d">>

\* what a process_files thread finds under a name: no file any more, a file
\* that is not a zip container, a package that extracts
UiFiles == {None, Some(NotAZip), Some(MainOnly(Some(PartA)))}

\* the texts of the status label
Status(kind, i, n, name) == [kind |-> kind, i |-> i, n |-> n, name |-> name]
READY == Status("Ready", 0, 0, <<>>)
PROCESSING == Status("Processing...", 0, 0, <<>>)
SAVING == Status("Saving merged file...", 0, 0, <<>>)
NO_FILES == Status("No files selected.", 0, 0, <<>>)
DONE == Status("Done. Saved to", 0, 0, <<>>)
Selected(n) == Status("Selected files.", 0, n, <<>>)
ProcessingFile(i, n, name) == Status("Processing", i, n, name)

\* a callback handed to root.after(0, ...)
Callback(fn, status, count) == [fn |-> fn, status |-> status, count |-> count]
update_status(status) == Callback("update_status", status, 0)
showerror == Callback("showerror", READY, 0)
finish_processing(count) == Callback("finish_processing", DONE, count)
reset_ui == Callback("reset_ui", READY, 0)

\* a process_files thread: where it is, the list its loop iterates (the one
\* self.files_found is bound to while shared, else the list it_list), the
\* index of the loop, and its locals
Worker(wpc, shared, it_list, i, merged_content, success_count) ==
    [pc |-> wpc, shared |-> shared, it_list |-> it_list, i |-> i,
     merged_content |-> merged_content, success_count |-> success_count]
Started == Worker("begin", FALSE, <<>>, 0, <<>>, 0)
Ended == Worker("ended", FALSE, <<>>, 0, <<>>, 0)

\* the list the loop of worker w iterates, as it is now
IterList(w) == IF w.shared THEN files_found ELSE w.it_list

\* self.files_found is bound to a new list: a loop that iterates the old
\* list keeps it, with the contents old
Rebound(ws, old) ==
    [k \in DOMAIN ws |->
        IF ws[k].pc = "loop" /\ ws[k].shared
        THEN [ws[k] EXCEPT !.shared = FALSE, !.it_list = old]
        ELSE ws[k]]

\* refresh_list with self.files_found = found
refresh_list(found) ==
    /\ list_files' = found
    /\ IF found # <<>>
       THEN /\ btn_run' = NORMAL
            /\ status_label' = Selected(Len(found))
       ELSE /\ btn_run' = DISABLED
            /\ status_label' = NO_FILES

\* every tuple of at most MaxPick different names the dialog can return
Picks ==
    UNION {{f \in [1..n -> UiNames] : \A a, b \in 1..n : a # b => f[a] # f[b]}
           : n \in 1..MaxPick}

\* __init__: the widgets, and scan_files of the default directory when it
\* exists
UiInit ==
    /\ disk \in [UiNames -> UiFiles]
    /\ workers = <<>>
    /\ after_queue = <<>>
    /\ merge_dir = <<>>
    /\ \/ /\ files_found = <<>>
          /\ list_files = <<>>
          /\ btn_run = DISABLED
          /\ status_label = READY
          /\ selected_dir = None
       \/ \E present \in SUBSET UiNames :
            LET found == sorted(ListDir(present))
            IN  /\ files_found = found
                /\ list_files = found
                /\ btn_run = (IF found # <<>> THEN NORMAL ELSE DISABLED)
                /\ status_label = (IF found # <<>> THEN Selected(Len(found))
                                   ELSE NO_FILES)
                /\ selected_dir = Some(WORD_DIR)
    /\ BatchIdle
    /\ MergeIdle
    /\ docx_path = None
    /\ docx_text = None
    /\ root = None
    /\ stage = "ui"
    /\ paragraphs = <<>>
    /\ text = None
    /\ again = None

\* select_files with a dialog that returns files: the new ones are appended
\* to the list, then self.files_found is bound to the sorted list
select_files ==
    /\ stage = "ui"
    /\ \E files \in Picks :
         LET current_paths == {files_found[k] : k \in DOMAIN files_found}
             appended == files_found
                         \o SelectSeq(files, LAMBDA p : p \notin current_paths)
             found == sorted(appended)
         IN  /\ files_found' = found
             /\ workers' = Rebound(workers, appended)
             /\ selected_dir' = Some(WORD_DIR)
             /\ refresh_list(found)
    /\ UNCHANGED <<disk, after_queue, merge_dir>>
    /\ UNCHANGED <<packageVars, root, stage, textVars, batchVars, mergeVars>>

\* remove_selected with the rows indices selected in the list box: the files
\* are removed from the list self.files_found is bound to
remove_selected ==
    /\ stage = "ui"
    /\ \E indices \in SUBSET (DOMAIN list_files) :
         /\ indices # {}
         /\ LET files_to_remove == {files_found[k] : k \in indices}
                found == SelectSeq(files_found, LAMBDA p : p \notin files_to_remove)
            IN  /\ files_found' = found
                /\ refresh_list(found)
    /\ UNCHANGED <<selected_dir, disk, workers, after_queue, merge_dir>>
    /\ UNCHANGED <<packageVars, root, stage, textVars, batchVars, mergeVars>>

\* clear_all: self.files_found is bound to a new empty list
clear_all ==
    /\ stage = "ui"
    /\ files_found' = <<>>
    /\ workers' = Rebound(workers, files_found)
    /\ refresh_list(<<>>)
    /\ UNCHANGED <<selected_dir, disk, after_queue, merge_dir>>
    /\ UNCHANGED <<packageVars, root, stage, textVars, batchVars, mergeVars>>

\* start_processing, the command of the 'Extract & Merge' button: a
\* disabled button does not run its command
start_processing ==
    /\ stage = "ui"
    /\ btn_run = NORMAL
    /\ Len(workers) < MaxWorkers
    /\ btn_run' = DISABLED
    /\ status_label' = PROCESSING
    /\ workers' = Append(workers, Started)
    /\ UNCHANGED <<files_found, list_files, selected_dir, disk, after_queue, merge_dir>>
    /\ UNCHANGED <<packageVars, root, stage, textVars, batchVars, mergeVars>>

\* process_files up to the loop: the locals, and the iterator over the list
\* self.files_found is bound to
ProcessBegin(w) ==
    /\ workers[w].pc = "begin"
    /\ workers' = [workers EXCEPT ![w] = Worker("loop", TRUE, <<>>, 0, <<>>, 0)]
    /\ UNCHANGED <<files_found, list_files, btn_run, status_label, selected_dir,
                   disk, after_queue, merge_dir>>
    /\ UNCHANGED <<packageVars, root, stage, textVars, batchVars, mergeVars>>

\* one iteration of the loop of process_files; a file that is not there
\* raises out of extract_docx_text into the except clause
ProcessOne(w) ==
    /\ workers[w].pc = "loop"
    /\ workers[w].i < Len(IterList(workers[w]))
    /\ Len(after_queue) < MaxPending
    /\ LET me == workers[w]
           i == me.i
           file_path == IterList(me)[i + 1]
           shown == update_status(ProcessingFile(i + 1, Len(files_found), file_path))
       IN  IF disk[file_path] = None
           THEN /\ after_queue' = after_queue \o <<shown, showerror, reset_ui>>
                /\ workers' = [workers EXCEPT ![w] = Ended]
           ELSE LET text_obj == extract_docx_text(disk[file_path][1])
                    content == IF text_obj # None
                               THEN <<to_text(text_obj[1])>> ELSE <<>>
                    separator == IF i + 1 < Len(files_found)
                                 THEN <<SEPARATOR>> ELSE <<>>
                IN  /\ after_queue' = Append(after_queue, shown)
                    /\ workers' = [workers EXCEPT ![w] =
                          [me EXCEPT
                             !.i = i + 1,
                             !.merged_content = @ \o content \o separator,
                             !.success_count = @ + Len(content)]]
    /\ UNCHANGED <<files_found, list_files, btn_run, status_label, selected_dir,
                   disk, merge_dir>>
    /\ UNCHANGED <<packageVars, root, stage, textVars, batchVars, mergeVars>>

\* process_files after the loop: the merged file is written and
\* finish_processing is handed to the UI thread
ProcessSave(w) ==
    /\ workers[w].pc = "loop"
    /\ workers[w].i >= Len(IterList(workers[w]))
    /\ Len(after_queue) < MaxPending
    /\ merge_dir' = Append(merge_dir, Concat(workers[w].merged_content))
    /\ after_queue' = after_queue
                      \o <<update_status(SAVING),
                           finish_processing(workers[w].success_count)>>
    /\ workers' = [workers EXCEPT ![w] = Ended]
    /\ UNCHANGED <<files_found, list_files, btn_run, status_label, selected_dir, disk>>
    /\ UNCHANGED <<packageVars, root, stage, textVars, batchVars, mergeVars>>

\* a step of one of the process_files threads
process_files == \E w \in DOMAIN workers : ProcessBegin(w) \/ ProcessOne(w) \/ ProcessSave(w)

\* the UI thread runs the oldest callback: update_status, finish_processing,
\* reset_ui, or the error box
RunCallback ==
    /\ after_queue # <<>>
    /\ after_queue' = Tail(after_queue)
    /\ LET cb == Head(after_queue)
       IN  /\ status_label' = (IF cb.fn = "showerror" THEN status_label ELSE cb.status)
           /\ btn_run' = (IF cb.fn \in {"finish_processing", "reset_ui"}
                          THEN NORMAL ELSE btn_run)
    /\ UNCHANGED <<files_found, list_files, selected_dir, disk, workers, merge_dir>>
    /\ UNCHANGED <<packageVars, root, stage, textVars, batchVars, mergeVars>>

UiNext ==
    \/ select_files
    \/ remove_selected
    \/ clear_all
    \/ start_processing
    \/ process_files
    \/ RunCallback

UiSpec == UiInit /\ [][UiNext]_vars

\* ------------------------------------------------------------------------
\* Properties of the text normalizer
\* ------------------------------------------------------------------------
\* text.split("\n") without the piece after the final newline
RECURSIVE OutLines(_)
OutLines(t) ==
    IF t = <<>> THEN <<>>
    ELSE LET k == RunLen(t, Alphabet \ {NL}) IN
         <<SubSeq(t, 1, k)>> \o OutLines(SubSeq(t, k + 2, Len(t)))

\* the text before normalization: the lines joined with newlines
RawText == Join(ExtendLines(paragraphs), <<NL>>)

HasHSpaceBeforeNL(t) == \E i \in 1..(Len(t) - 1) : t[i] \in HSpace /\ t[i + 1] = NL
HasBlankRun(t) ==
    \E i \in 1..(Len(t) - 2) : t[i] = NL /\ t[i + 1] = NL /\ t[i + 2] = NL

\* a paragraph as _extract_paragraph_text returns it (stripped), not empty
IsVisibleParagraph(s) == s # <<>> /\ Strip(s) = s

\* C1 (as claimed): an empty paragraph between two non-empty paragraphs
\* gives an empty line of the normalized text between the last line of the
\* paragraph before it and the first line of the paragraph after it.
C1_EmptyParagraphKept ==
    text # None =>
        \A i \in 2..(Len(paragraphs) - 1) :
            ( /\ paragraphs[i] = <<>>
              /\ IsVisibleParagraph(paragraphs[i - 1])
              /\ IsVisibleParagraph(paragraphs[i + 1]) )
            => LET out == OutLines(text[1])
                   before == splitlines(paragraphs[i - 1])
                   after == splitlines(paragraphs[i + 1])
               IN  \E j \in 2..(Len(out) - 1) :
                       /\ out[j] = <<>>
                       /\ out[j - 1] = before[Len(before)]
                       /\ out[j + 1] = RStrip(after[1])

\* C5: the normalized text has no space or tab right before a newline or
\* at its end, no three consecutive newlines, and ends with exactly one
\* newline.
C5_NormalizedShape ==
    text # None =>
        LET t == text[1] IN
        /\ \A i \in 1..Len(t) : t[i] \in HSpace => (i < Len(t) /\ t[i + 1] # NL)
        /\ \A i \in 1..(Len(t) - 2) : ~(t[i] = NL /\ t[i + 1] = NL /\ t[i + 2] = NL)
        /\ Len(t) >= 1
        /\ t[Len(t)] = NL
        /\ (Len(t) >= 2 => t[Len(t) - 1] # NL)

\* C5 witness: the joined lines had a space or tab before a newline, its
\* removal made a run of three newlines, and the normalized text keeps one
\* blank line of it.
C5_Witness ==
    /\ text # None
    /\ HasHSpaceBeforeNL(RawText)
    /\ HasBlankRun(SubTrailingSpace(RawText))
    /\ \E i \in 1..(Len(text[1]) - 2) :
           text[1][i] = NL /\ text[1][i + 1] = NL /\ text[1][i + 2] # NL

\* C6: normalizing the normalized text again changes nothing.
C6_Idempotent ==
    again # None => again[1] = text[1]

\* C6 witness: the first pass changed the joined lines (by more than the
\* final newline) and the second pass has run on a text with a blank line.
C6_Witness ==
    /\ again # None
    /\ text[1] # RawText \o <<NL>>
    /\ HasHSpaceBeforeNL(RawText) /\ Len(again[1]) > 1

\* ------------------------------------------------------------------------
\* Properties of the paragraph text extractor
\* ------------------------------------------------------------------------
\* the w:p elements below the root, and the place of one in document order
ParagraphElements(tree) == {i \in 2..Len(tree) : tree[i].tag = "p"}
Rank(tree, i) == Cardinality({j \in ParagraphElements(tree) : j <= i})

\* the descendants of element i
Descendants(tree, i) ==
    {j \in (i + 1)..Len(tree) :
        \A m \in (i + 1)..j : tree[m].depth > tree[i].depth}

\* the tokens of paragraph i: its w:t, w:tab, w:br and w:cr descendants,
\* in encounter order
RECURSIVE TokensIn(_, _, _)
TokensIn(tree, js, j) ==
    IF j > Len(tree) THEN <<>>
    ELSE (IF j \in js /\ tree[j].tag \in {"t", "tab", "br", "cr"}
          THEN <<tree[j]>> ELSE <<>>) \o TokensIn(tree, js, j + 1)

Tokens(tree, i) == TokensIn(tree, Descendants(tree, i), i + 1)

\* what a token stands for in the paragraph's text
TokenText(tok) ==
    CASE tok.tag = "t" -> tok.text
      [] tok.tag = "tab" -> <<TAB>>
      [] OTHER -> <<NL>>

RECURSIVE TokensText(_)
TokensText(toks) ==
    IF toks = <<>> THEN <<>> ELSE TokenText(Head(toks)) \o TokensText(Tail(toks))

IsBreak(tok) == tok.tag \in {"br", "cr"}
IsRun(tok) == tok.tag = "t"
\* a text run with text, all on one line
IsNonEmptyRun(tok) ==
    /\ IsRun(tok)
    /\ tok.text # <<>>
    /\ \A k \in 1..Len(tok.text) : tok.text[k] \notin LineBoundary
\* a text run with a character that str.strip() keeps, and all on one line
IsVisibleRun(tok) ==
    /\ IsRun(tok)
    /\ \E k \in 1..Len(tok.text) : tok.text[k] \notin Whitespace
    /\ \A k \in 1..Len(tok.text) : tok.text[k] \notin LineBoundary

IsInfix(part, whole) ==
    \E k \in 0..(Len(whole) - Len(part)) : SubSeq(whole, k + 1, k + Len(part)) = part

\* the lines of a paragraph made of a run, a break and a run are two
\* neighbouring lines of the normalized text, and its only lines when the
\* part has no other paragraph
BreakSplits(tree, i, toks) ==
    LET out == OutLines(text[1]) IN
    /\ \E j \in 1..(Len(out) - 1) :
           out[j] = Strip(toks[1].text) /\ out[j + 1] = RStrip(toks[3].text)
    /\ ParagraphElements(tree) = {i} => Len(out) = 2

\* a break that starts or ends the tokens of a paragraph leaves the entry,
\* and the text of a one-paragraph part, as they are without it
EdgeBreakDropped(tree, i, toks) ==
    \A rest \in ( (IF IsBreak(toks[1]) THEN {Tail(toks)} ELSE {})
                  \cup (IF IsBreak(toks[Len(toks)])
                        THEN {SubSeq(toks, 1, Len(toks) - 1)} ELSE {}) ) :
        /\ paragraphs[Rank(tree, i)] = Strip(TokensText(rest))
        /\ ParagraphElements(tree) = {i}
              => text[1] = to_text(<<Strip(TokensText(rest))>>)

\* C7 (as claimed): a break between two non-empty text runs (here: even
\* runs without a line separator in their text) gives two output lines; a break that is the first or last token gives none.
C7_BreakBetweenNonEmptyRuns ==
    (root # None /\ text # None) =>
        \A i \in ParagraphElements(root[1]) :
            LET toks == Tokens(root[1], i) IN
            /\ ( /\ Len(toks) = 3
                 /\ IsNonEmptyRun(toks[1])
                 /\ IsBreak(toks[2])
                 /\ IsNonEmptyRun(toks[3]) )
               => BreakSplits(root[1], i, toks)
            /\ toks # <<>> => EdgeBreakDropped(root[1], i, toks)

\* C7 (amended): a break between two text runs that each hold a character
\* other than whitespace, and no line separator, gives two output lines; a
\* break that is the first or last token gives none.
C7_BreakBetweenVisibleRuns ==
    (root # None /\ text # None) =>
        \A i \in ParagraphElements(root[1]) :
            LET toks == Tokens(root[1], i) IN
            /\ ( /\ Len(toks) = 3
                 /\ IsVisibleRun(toks[1])
                 /\ IsBreak(toks[2])
                 /\ IsVisibleRun(toks[3]) )
               => BreakSplits(root[1], i, toks)
            /\ toks # <<>> => EdgeBreakDropped(root[1], i, toks)

\* C7 witness: a part whose one paragraph is run, break, run was normalized
\* to two lines.
C7_Witness ==
    /\ root # None /\ text # None
    /\ \E i \in ParagraphElements(root[1]) :
           LET toks == Tokens(root[1], i) IN
           /\ ParagraphElements(root[1]) = {i}
           /\ Len(toks) = 3
           /\ IsVisibleRun(toks[1]) /\ IsBreak(toks[2]) /\ IsVisibleRun(toks[3])
           /\ Len(OutLines(text[1])) = 2

\* one entry per w:p element, in document order, each the stripped
\* concatenation of the element's tokens
EntryPerParagraph(tree) ==
    /\ Len(paragraphs) = Cardinality(ParagraphElements(tree))
    /\ \A i \in ParagraphElements(tree) :
           paragraphs[Rank(tree, i)] = Strip(TokensText(Tokens(tree, i)))

\* the entry of a paragraph with a tab token right between two runs holds
\* the first run, the tab and the second run (but for the outer strip)
TabBetween(tree, i, k) ==
    LET toks == Tokens(tree, i) IN
    IsInfix(LStrip(toks[k - 1].text) \o <<TAB>> \o RStrip(toks[k + 1].text),
            paragraphs[Rank(tree, i)])

\* C8 (as claimed): N entries for N paragraph elements, each the stripped
\* concatenation of its fragments; a tab between two text runs (here: even
\* two runs that have text) is a literal tab between the two text
\* fragments.
C8_EntriesAndTabBetweenRuns ==
    (root # None /\ stage = "paragraphs") =>
        /\ EntryPerParagraph(root[1])
        /\ \A i \in ParagraphElements(root[1]) :
               LET toks == Tokens(root[1], i) IN
               \A k \in 2..(Len(toks) - 1) :
                   ( /\ toks[k].tag = "tab"
                     /\ IsNonEmptyRun(toks[k - 1])
                     /\ IsNonEmptyRun(toks[k + 1]) )
                   => TabBetween(root[1], i, k)

\* C8 (amended): as claimed, for a tab between two text runs that each
\* hold a character other than whitespace.
C8_EntriesAndTabBetweenVisibleRuns ==
    (root # None /\ stage = "paragraphs") =>
        /\ EntryPerParagraph(root[1])
        /\ \A i \in ParagraphElements(root[1]) :
               LET toks == Tokens(root[1], i) IN
               \A k \in 2..(Len(toks) - 1) :
                   ( /\ toks[k].tag = "tab"
                     /\ IsVisibleRun(toks[k - 1])
                     /\ IsVisibleRun(toks[k + 1]) )
                   => TabBetween(root[1], i, k)

\* C8 witness: a paragraph of run, tab, run was extracted as one entry
\* with the tab in it.
C8_Witness ==
    /\ root # None /\ stage = "paragraphs"
    /\ \E i \in ParagraphElements(root[1]) :
           LET toks == Tokens(root[1], i) IN
           /\ Len(toks) = 3
           /\ IsVisibleRun(toks[1]) /\ toks[2].tag = "tab" /\ IsVisibleRun(toks[3])
           /\ paragraphs = <<toks[1].text \o <<TAB>> \o toks[3].text>>

\* ------------------------------------------------------------------------
\* Properties of extract_docx_text
\* ------------------------------------------------------------------------
\* the entries of the file that are supplementary parts: word/header*.xml,
\* word/footer*.xml, word/footnotes.xml, word/endnotes.xml
SupplementaryEntries(file) ==
    {i \in 1..Len(file.entries) : IsExtraXml(file.entries[i].name)}

\* the supplementary entries in ascending order of name
InNameOrder(file) ==
    LET supp == SupplementaryEntries(file) IN
    CHOOSE seq \in [1..Cardinality(supp) -> supp] :
        \A a, b \in 1..Cardinality(supp) :
            a < b => StrLess(file.entries[seq[a]].name, file.entries[seq[b]].name)

\* the paragraph lines of one entry; none when it does not parse
LinesOf(entry) ==
    IF entry.xml = None THEN <<>> ELSE _extract_paragraphs_from_xml(entry.xml[1])

MainEntries(file) ==
    {i \in 1..Len(file.entries) : file.entries[i].name = DOCX_MAIN_DOCUMENT}

\* the main part is missing or does not parse
MainFails(file) ==
    \A i \in MainEntries(file) : file.entries[i].xml = None

\* C2: the result is the main part's lines, then the lines of the
\* supplementary parts in ascending order of entry name, whatever the
\* stored order of the entries.
C2_MainThenExtrasInNameOrder ==
    (stage = "extracted" /\ docx_text # None) =>
        LET file == docx_path[1]
            order == InNameOrder(file)
            main == CHOOSE i \in MainEntries(file) : TRUE
        IN  docx_text[1] =
                LinesOf(file.entries[main])
                \o Concat([k \in 1..Len(order) |-> LinesOf(file.entries[order[k]])])

\* C2 witness: header2.xml is stored before header1.xml, both parse to
\* different lines, and header1's lines come first, after the main part's.
C2_Witness ==
    /\ stage = "extracted" /\ docx_text # None
    /\ LET es == docx_path[1].entries IN
       \E m, i, j \in 1..Len(es) :
           /\ es[m].name = DOCX_MAIN_DOCUMENT
           /\ es[i].name = WORD_HEADER2 /\ es[j].name = WORD_HEADER1 /\ i < j
           /\ es[i].xml # None /\ es[j].xml # None /\ es[i].xml # es[j].xml
           /\ docx_text[1] = LinesOf(es[m]) \o LinesOf(es[j]) \o LinesOf(es[i])

\* the file without the supplementary entries that do not parse
WithoutBadExtras(file) ==
    [file EXCEPT !.entries =
        SelectSeq(file.entries, LAMBDA e : ~(IsExtraXml(e.name) /\ e.xml = None))]

\* C3: None is returned exactly when the main part is missing or does not
\* parse; a supplementary part that does not parse adds nothing and takes
\* nothing away: the result is that of the file without it.
C3_PartFailuresIsolated ==
    stage = "extracted" =>
        LET file == docx_path[1] IN
        /\ docx_text = None <=> MainFails(file)
        /\ docx_text = extract_docx_text(WithoutBadExtras(file))
        /\ docx_text # None =>
               \A i \in SupplementaryEntries(file) :
                   file.entries[i].xml # None
                   => IsInfix(LinesOf(file.entries[i]), docx_text[1])

\* C3 witness: with a supplementary part that does not parse, the main
\* part's and another supplementary part's lines were returned.
C3_Witness ==
    /\ stage = "extracted" /\ docx_text # None
    /\ LET es == docx_path[1].entries IN
       \E m, i, j \in 1..Len(es) :
           /\ es[m].name = DOCX_MAIN_DOCUMENT
           /\ IsExtraXml(es[i].name) /\ es[i].xml = None
           /\ IsExtraXml(es[j].name) /\ es[j].xml # None
           /\ docx_text[1] = LinesOf(es[m]) \o LinesOf(es[j])

\* ------------------------------------------------------------------------
\* Properties of convert_directory
\* ------------------------------------------------------------------------
\* the input files of the batch: the regular files named *.docx
DocxFiles ==
    {n \in Present(input_dir) : endswith(n, DOT_DOCX) /\ input_dir[n][1].is_file}

Contents(n) == input_dir[n][1].contents

Count(seq, x) == Cardinality({i \in 1..Len(seq) : seq[i] = x})

\* every step of the batch takes it closer to its return
Measure ==
    CASE pc = "start" -> Cardinality(Present(input_dir)) + 2
      [] pc = "loop" -> Len(queue) + 1
      [] OTHER -> 0

\* the batch has a next step: it starts, converts the next input file or
\* returns
CanStep ==
    \/ pc = "start"
    \/ pc = "loop" /\ queue = <<>>
    \/ pc = "loop" /\ queue # <<>> /\ Head(queue) \in DocxFiles

\* C4: a step on a file that is not a zip container reports it not
\* extractable, counts it as skipped, writes nothing and leaves the loop
\* running on the files after it; the batch cannot stop before it returns
\* its counters, every step brings the return closer, and it returns with
\* nothing left to process.
C4_BadInputDoesNotAbort ==
    /\ [][ (pc = "loop" /\ queue # <<>> /\ ~Contents(Head(queue)).zip)
           => /\ docx_text' = None
              /\ skipped' = skipped + 1
              /\ converted' = converted
              /\ output_dir' = output_dir
              /\ queue' = Tail(queue)
              /\ pc' = "loop" ]_vars
    /\ [][ /\ Measure' < Measure
           /\ (pc' = "returned" \/ CanStep')
           /\ (pc' = "returned"
                  => queue' = <<>> /\ ret' = Some(<<converted', skipped'>>)) ]_vars

\* C4 witness: the batch returned after skipping a file that is not a zip
\* container and converting a file that sorts after it.
C4_Witness ==
    /\ pc = "returned"
    /\ \E n, m \in DocxFiles :
           /\ StrLess(n, m)
           /\ ~Contents(n).zip
           /\ extract_docx_text(Contents(m)) # None
           /\ output_dir[out_path(m)] = Some(to_text(extract_docx_text(Contents(m))[1]))
    /\ skipped >= 1 /\ converted >= 1

\* C9: on return the counters add up to the number of input files; each
\* input that extracts has its <stem>.txt written once, holding its text;
\* the <stem>.txt of each skipped input was not written: it is absent or
\* as an earlier run left it.
C9_CountersAndOutputs ==
    pc = "returned" =>
        /\ ret = Some(<<converted, skipped>>)
        /\ converted + skipped = Cardinality(DocxFiles)
        /\ converted = Cardinality({n \in DocxFiles : extract_docx_text(Contents(n)) # None})
        /\ Len(written) = converted
        /\ \A n \in DocxFiles :
               LET result == extract_docx_text(Contents(n)) IN
               IF result # None
               THEN /\ Count(written, out_path(n)) = 1
                    /\ output_dir[out_path(n)] = Some(to_text(result[1]))
               ELSE /\ Count(written, out_path(n)) = 0
                    /\ output_dir[out_path(n)] \in {None, Some(OLD)}

\* C9 witness: the batch returned with one input converted over an old
\* output file and one input skipped whose old output file is still there.
C9_Witness ==
    /\ pc = "returned"
    /\ converted = 1 /\ skipped = 2
    /\ \E n, m \in DocxFiles :
           /\ extract_docx_text(Contents(n)) = None
           /\ output_dir[out_path(n)] = Some(OLD)
           /\ extract_docx_text(Contents(m)) # None
           /\ written = <<out_path(m)>>

\* ------------------------------------------------------------------------
\* Properties of merge_txt_files
\* ------------------------------------------------------------------------
\* the .txt files of the source directory
TxtFiles ==
    {n \in Present(src_dir) :
        src_dir[n][1].is_file /\ lower(suffix(n)) = DOT_TXT}

\* their contents in ascending order of file name
ContentsInNameOrder ==
    LET order == CHOOSE seq \in [1..Cardinality(TxtFiles) -> TxtFiles] :
                     \A a, b \in 1..Cardinality(TxtFiles) :
                         a < b => StrLess(seq[a], seq[b])
    IN  [i \in 1..Cardinality(TxtFiles) |-> src_dir[order[i]][1].contents]

EndsInNewline(c) == c # <<>> /\ c[Len(c)] = NL

\* the contents with "\n" after each that ends in a newline and "\n\n"
\* after each that does not, but for the last
RECURSIVE WithSeparators(_)
WithSeparators(cs) ==
    IF cs = <<>> THEN <<>>
    ELSE IF Len(cs) = 1 THEN cs[1]
    ELSE cs[1] \o (IF EndsInNewline(cs[1]) THEN <<NL>> ELSE <<NL, NL>>)
         \o WithSeparators(Tail(cs))

\* C10: the merged text is the contents of the .txt files in ascending
\* order of file name, joined by "\n\n" when none but the last ends in a
\* newline, with a single "\n" after a content that ends in a newline, and
\* nothing after the last content.
C10_MergedInNameOrder ==
    out_file # None =>
        LET cs == ContentsInNameOrder IN
        /\ merged_count = Some(Cardinality(TxtFiles))
        /\ (\A i \in 1..(Len(cs) - 1) : ~EndsInNewline(cs[i]))
               => out_file[1] = Join(cs, <<NL, NL>>)
        /\ out_file[1] = WithSeparators(cs)

\* C10 witness: a.txt, b.txt and c.txt holding "A", "B" and "C" were merged
\* into "A\n\nB\n\nC".
C10_Witness ==
    /\ out_file = Some(<<"A", NL, NL, "B", NL, NL, "C">>)
    /\ src_dir[A_TXT] = Some(File(<<"A">>))
    /\ src_dir[B_TXT] = Some(File(<<"B">>))
    /\ src_dir[C_TXT] = Some(File(<<"C">>))

\* ------------------------------------------------------------------------
\* Properties of the desktop UI
\* ------------------------------------------------------------------------
\* the process_files threads that have not come to their end
Running == {w \in DOMAIN workers : workers[w].pc # "ended"}

\* the process_files threads inside their loop
Iterating == {w \in DOMAIN workers : workers[w].pc = "loop"}

\* a thread was started and neither finish_processing nor reset_ui has run
\* for it on the UI thread yet
Busy ==
    \/ Running # {}
    \/ \E k \in DOMAIN after_queue :
          after_queue[k].fn \in {"finish_processing", "reset_ui"}

\* C11: from the start of a process_files thread until finish_processing
\* or reset_ui runs on the UI thread the 'Extract & Merge' button is
\* disabled, whatever select_files, remove_selected and clear_all do in
\* between; so at most one process_files thread runs at a time, and while a
\* thread is in its loop neither self.files_found nor the list the loop
\* iterates changes.
C11_RunDisabledWhileWorking ==
    [][/\ Busy' => btn_run' = DISABLED
       /\ Cardinality(Running') <= 1
       /\ \A w \in Iterating :
             /\ files_found' = files_found
             /\ workers'[w].pc = "loop" =>
                   IterList(workers[w])' = IterList(workers[w])]_vars

====
